---- MODULE Spec2Model ----
(***************************************************************************)
(* A model of the OpenSDS northbound plugins:                              *)
(*   - service-broker/controller/controller.go : the instance registry     *)
(*     (openSDSController) with its reader/writer lock,                    *)
(*   - client/iscsi/helper.go : the device-path poll                       *)
(*     (waitForPathToExistInternal), Connect, Disconnect and Format.       *)
(* Goroutines calling the broker are the processes Procs; every handler is *)
(* cut at the points where another goroutine can observe or change the     *)
(* state it shares (the lock, the map, the credential objects).            *)
(***************************************************************************)
EXTENDS Integers, Sequences, FiniteSets, TLC

\* ------------------------------------------------------------- bounds
\* broker calls started in one run
MaxOps == 4
\* largest maxRetries handed to the device-path poll
MaxRetriesBound == 10

\* the goroutines serving broker requests, and the instance ids they name
Procs == {1, 2}
Ids == {1, 2}
NoProc == 0

\* ------------------------------------------------------------- errors
\* fmt.Errorf("No such instance %s exited!", instanceID)
ErrNoSuchInstance == "No such instance exited!"
\* fmt.Errorf("Volume id not provided in credential info!")
ErrVolumeIdNotProvided == "Volume id not provided in credential info!"
\* fmt.Errorf("Volume attachment id not provided in credential info!")
ErrAttachmentIdNotProvided == "Volume attachment id not provided in credential info!"
\* an error of the storage control-plane client, passed through unchanged
ErrClient == "client error"
NoErr == "nil"

VARIABLES
    instanceMap,   \* c.instanceMap : instance id -> *openSDSServiceInstance
    instances,     \* heap of openSDSServiceInstance objects, by address
    credentials,   \* heap of brokerapi.Credential maps, by address
    rwMutex,       \* c.rwMutex : [writer, readers]
    pc,            \* per goroutine: its position in the handler it runs
    cur,           \* per goroutine: the call it runs and the handler's locals
    ret,           \* per goroutine: what its last completed call returned
    volumes,       \* control plane: the volumes that exist
    attachments,   \* control plane: the attachments that exist
    nextVol,       \* control plane: next volume id it hands out
    nextAtc,       \* control plane: next attachment id it hands out
    calls,         \* the calls the control-plane client has received, in order
    hist,          \* per instance id: the calls that succeeded since its last create
    nOps,          \* number of broker calls started
    overlap,       \* some broker call started while another one was running
    fatal,         \* the Go runtime has stopped the process (concurrent map access)
    wpc,           \* waitForPathToExistInternal: position
    wargs,         \* waitForPathToExistInternal: its arguments
    wi,            \* waitForPathToExistInternal: loop counter i
    wpath,         \* waitForPathToExistInternal: *devicePath
    wlog,          \* waitForPathToExistInternal: probes and sleeps performed
    wret,          \* waitForPathToExistInternal: returned value
    hpc,           \* iscsi helper: position in Connect, Disconnect or Format
    hop,           \* iscsi helper: the function running, with its arguments
    cmds,          \* iscsi helper: what the running function has executed so far
    hret,          \* iscsi helper: what the last function returned
    exited,        \* log.Fatalf / log.Fatalln has ended the process (os.Exit(1))
    loggedIn,      \* the initiator holds a session with the target
    devFs          \* the filesystem signature on the device ("" for none)

regVars == <<instanceMap, instances, credentials, rwMutex, pc, cur, ret,
             volumes, attachments, nextVol, nextAtc, calls, hist, nOps, overlap, fatal>>
waitVars == <<wpc, wargs, wi, wpath, wlog, wret>>
helperVars == <<hpc, hop, cmds, hret, exited, loggedIn, devFs>>
vars == <<regVars, waitVars, helperVars>>

\* ------------------------------------------------------------- credential maps
\* brokerapi.Credential is map[string]interface{}
EmptyCred == [k \in {} |-> 0]

Has(m, k) == k \in DOMAIN m

Put(m, k, v) == [x \in (DOMAIN m) \cup {k} |-> IF x = k THEN v ELSE m[x]]

\* vol.GetName(): the control plane names a volume after its id
VolName(v) == <<"vol", v>>

\* "OPENSDS:" + vol.GetName() + ":" + vol.GetId()
Image(v) == <<"OPENSDS:", VolName(v), ":", v>>

\* the credential set CreateServiceInstance stores
NewCredential(v) == Put(Put(EmptyCred, "volumeId", v), "image", Image(v))

\* atc.ConnectionInfo as the control plane returns it for attachment a
ConnectionInfo(a) == <<"conn", a>>

\* the *brokerapi.Credential the instance at address i currently points to
CredOf(i) == instances[i].Credential

NoRet == [op |-> "none", id |-> 0, opid |-> 0, err |-> NoErr, cred |-> EmptyCred]
NoCur == [op |-> "none", id |-> 0, opid |-> 0, instance |-> 0, vol |-> 0, atc |-> 0,
          err |-> NoErr, cred |-> EmptyCred]

\* ------------------------------------------------------------- the lock
\* variant: Lock that does not wait for the readers to leave
CanLockIgnoringReaders == rwMutex.writer = NoProc

\* sync.RWMutex: Lock needs no holder at all, RLock needs no writer
CanLock == rwMutex.writer = NoProc /\ rwMutex.readers = {}
CanRLock == rwMutex.writer = NoProc

\* a handler may start while the process runs and the call budget lasts
CanStart(p) == /\ ~fatal
               /\ pc[p] = "idle"
               /\ nOps < MaxOps

Begin(p, name, id) ==
    /\ cur' = [cur EXCEPT ![p] = [NoCur EXCEPT !.op = name, !.id = id, !.opid = nOps + 1]]
    /\ ret' = [ret EXCEPT ![p] = NoRet]
    /\ nOps' = nOps + 1
    /\ overlap' = (overlap \/ \E q \in Procs \ {p} : pc[q] # "idle")

\* the handler returns: deferred unlock has run, the caller has the result
Return(p) ==
    /\ ret' = [ret EXCEPT ![p] = [op |-> cur[p].op, id |-> cur[p].id, opid |-> cur[p].opid,
                                  err |-> cur[p].err, cred |-> cur[p].cred]]
    /\ hist' = IF cur[p].err # NoErr THEN hist
               ELSE IF cur[p].op = "Create"
                    THEN [hist EXCEPT ![cur[p].id] = <<"Create">>]
                    ELSE [hist EXCEPT ![cur[p].id] = Append(@, cur[p].op)]
    /\ cur' = [cur EXCEPT ![p] = NoCur]
    /\ pc' = [pc EXCEPT ![p] = "idle"]

Call(p, fn, arg, ok, res) ==
    [fn |-> fn, opid |-> cur[p].opid, id |-> cur[p].id, arg |-> arg, ok |-> ok, res |-> res]

\* no helper function called yet, nothing returned yet
NoHop == [fn |-> "none", auth |-> FALSE, fstype |-> ""]
NoHret == [path |-> "", err |-> NoErr]

\* the process runs and no helper function is on the stack
HelperIdle == ~exited /\ hpc \in {"idle", "done"}

Init ==
    /\ instanceMap = [i \in {} |-> 0]
    /\ instances = <<>>
    /\ credentials = <<>>
    /\ rwMutex = [writer |-> NoProc, readers |-> {}]
    /\ pc = [p \in Procs |-> "idle"]
    /\ cur = [p \in Procs |-> NoCur]
    /\ ret = [p \in Procs |-> NoRet]
    /\ volumes = {}
    /\ attachments = {}
    /\ nextVol = 1
    /\ nextAtc = 1
    /\ calls = <<>>
    /\ hist = [i \in Ids |-> <<>>]
    /\ nOps = 0
    /\ overlap = FALSE
    /\ fatal = FALSE
    /\ wpc = "idle"
    /\ wargs = [nilPath |-> FALSE, maxRetries |-> 0, tcp |-> TRUE]
    /\ wi = 0
    /\ wpath = "path"
    /\ wlog = <<>>
    /\ wret = "none"
    /\ hpc = "idle"
    /\ hop = NoHop
    /\ cmds = <<>>
    /\ hret = NoHret
    /\ exited = FALSE
    /\ loggedIn = FALSE
    /\ devFs = ""

\* ------------------------------------------------------------- helpers of the handlers
At(p, where) == ~fatal /\ pc[p] = where

Goto(p, where) == pc' = [pc EXCEPT ![p] = where]

Fail(p, e) == cur' = [cur EXCEPT ![p].err = e]

ClientCallErrDropped(ok) == NoErr
\* the err of a control-plane call: if err != nil { return err }
ClientCallErr(ok) == IF ok THEN NoErr ELSE ErrClient

\* variant: a missing instance reported as a missing volume id
VolumeLookupErrAbsentAsNoVolume(id) ==
    IF id \notin DOMAIN instanceMap THEN ErrVolumeIdNotProvided
    ELSE IF ~Has(credentials[CredOf(instanceMap[id])], "volumeId") THEN ErrVolumeIdNotProvided
    ELSE NoErr

\* variant: a missing volume id reported as a missing instance
VolumeLookupErrNoVolumeAsAbsent(id) ==
    IF id \notin DOMAIN instanceMap THEN ErrNoSuchInstance
    ELSE IF ~Has(credentials[CredOf(instanceMap[id])], "volumeId") THEN ErrNoSuchInstance
    ELSE NoErr

\* instance, ok := c.instanceMap[instanceID]; volInterface, ok := (*instance.Credential)["volumeId"]
VolumeLookupErr(id) ==
    IF id \notin DOMAIN instanceMap THEN ErrNoSuchInstance
    ELSE IF ~Has(credentials[CredOf(instanceMap[id])], "volumeId") THEN ErrVolumeIdNotProvided
    ELSE NoErr

\* instance, ok := c.instanceMap[instanceID]; atcInterface, ok := (*instance.Credential)["attachmentId"]
AttachmentLookupErr(id) ==
    IF id \notin DOMAIN instanceMap THEN ErrNoSuchInstance
    ELSE IF ~Has(credentials[CredOf(instanceMap[id])], "attachmentId") THEN ErrAttachmentIdNotProvided
    ELSE NoErr

\* variant: the entry is not dropped
MapDeleteKeepsEntry(m, id) == m

\* delete(c.instanceMap, instanceID)
MapDelete(m, id) == [x \in (DOMAIN m) \ {id} |-> m[x]]

\* variant: UnBind leaves the credential set as it was
UnBindCredentialKept(old) == old

\* the credential set UnBind leaves on the instance: &brokerapi.Credential{}
UnBindCredential(old) == EmptyCred

\* ------------------------------------------------------------- CreateServiceInstance
\* The request parameters (name, description, capacity, lvPath) only fill the
\* volume spec handed to the client; they do not reach the registry.
CreateLock(p, id) ==
    /\ CanStart(p)
    /\ CanLock
    /\ rwMutex' = [rwMutex EXCEPT !.writer = p]
    /\ Begin(p, "Create", id)
    /\ Goto(p, "create_call")
    /\ UNCHANGED <<instanceMap, instances, credentials, volumes, attachments,
                   nextVol, nextAtc, calls, hist, fatal, waitVars, helperVars>>

\* c.instanceMap[instanceID] = &openSDSServiceInstance{Name, Credential{volumeId, image}}
CreateStore(id, v) ==
    /\ credentials' = Append(credentials, NewCredential(v))
    /\ instances' = Append(instances, [Name |-> id, Credential |-> Len(credentials) + 1])
    /\ instanceMap' = Put(instanceMap, id, Len(instances) + 1)

CreateCall(p) ==
    /\ At(p, "create_call")
    /\ \E ok \in BOOLEAN :
         IF ok
         THEN /\ volumes' = volumes \cup {nextVol}
              /\ nextVol' = nextVol + 1
              /\ calls' = Append(calls, Call(p, "CreateVolume", 0, TRUE, nextVol))
              /\ CreateStore(cur[p].id, nextVol)
              /\ cur' = [cur EXCEPT ![p].vol = nextVol]
         ELSE /\ calls' = Append(calls, Call(p, "CreateVolume", 0, FALSE, 0))
              /\ Fail(p, ClientCallErr(ok))
              /\ UNCHANGED <<instanceMap, instances, credentials, volumes, nextVol>>
    /\ Goto(p, "create_unlock")
    /\ UNCHANGED <<rwMutex, ret, attachments, nextAtc, hist, nOps, overlap, fatal, waitVars, helperVars>>

CreateUnlock(p) ==
    /\ At(p, "create_unlock")
    /\ rwMutex' = [rwMutex EXCEPT !.writer = NoProc]
    /\ Return(p)
    /\ UNCHANGED <<instanceMap, instances, credentials, volumes, attachments,
                   nextVol, nextAtc, calls, nOps, overlap, fatal, waitVars, helperVars>>

\* ------------------------------------------------------------- RemoveServiceInstance
RemoveLock(p, id) ==
    /\ CanStart(p)
    /\ CanLock
    /\ rwMutex' = [rwMutex EXCEPT !.writer = p]
    /\ Begin(p, "Remove", id)
    /\ Goto(p, "remove_lookup")
    /\ UNCHANGED <<instanceMap, instances, credentials, volumes, attachments,
                   nextVol, nextAtc, calls, hist, fatal, waitVars, helperVars>>

RemoveLookup(p) ==
    /\ At(p, "remove_lookup")
    /\ LET e == VolumeLookupErr(cur[p].id) IN
         IF e # NoErr
         THEN /\ Fail(p, e)
              /\ Goto(p, "remove_unlock")
         ELSE /\ cur' = [cur EXCEPT ![p].instance = instanceMap[cur[p].id],
                                    ![p].vol = credentials[CredOf(instanceMap[cur[p].id])]["volumeId"]]
              /\ Goto(p, "remove_call")
    /\ UNCHANGED <<instanceMap, instances, credentials, rwMutex, ret, volumes, attachments,
                   nextVol, nextAtc, calls, hist, nOps, overlap, fatal, waitVars, helperVars>>

RemoveCall(p) ==
    /\ At(p, "remove_call")
    /\ \E ok \in BOOLEAN :
         IF ok
         THEN /\ volumes' = volumes \ {cur[p].vol}
              /\ calls' = Append(calls, Call(p, "DeleteVolume", cur[p].vol, TRUE, 0))
              /\ instanceMap' = MapDelete(instanceMap, cur[p].id)
              /\ UNCHANGED cur
         ELSE /\ calls' = Append(calls, Call(p, "DeleteVolume", cur[p].vol, FALSE, 0))
              /\ Fail(p, ClientCallErr(ok))
              /\ UNCHANGED <<instanceMap, volumes>>
    /\ Goto(p, "remove_unlock")
    /\ UNCHANGED <<instances, credentials, rwMutex, ret, attachments, nextVol, nextAtc,
                   hist, nOps, overlap, fatal, waitVars, helperVars>>

RemoveUnlock(p) ==
    /\ At(p, "remove_unlock")
    /\ rwMutex' = [rwMutex EXCEPT !.writer = NoProc]
    /\ Return(p)
    /\ UNCHANGED <<instanceMap, instances, credentials, volumes, attachments,
                   nextVol, nextAtc, calls, nOps, overlap, fatal, waitVars, helperVars>>

\* ------------------------------------------------------------- Bind
BindRLock(p, id) ==
    /\ CanStart(p)
    /\ CanRLock
    /\ rwMutex' = [rwMutex EXCEPT !.readers = @ \cup {p}]
    /\ Begin(p, "Bind", id)
    /\ Goto(p, "bind_lookup")
    /\ UNCHANGED <<instanceMap, instances, credentials, volumes, attachments,
                   nextVol, nextAtc, calls, hist, fatal, waitVars, helperVars>>

BindLookup(p) ==
    /\ At(p, "bind_lookup")
    /\ LET e == VolumeLookupErr(cur[p].id) IN
         IF e # NoErr
         THEN /\ Fail(p, e)
              /\ Goto(p, "bind_runlock")
         ELSE /\ cur' = [cur EXCEPT ![p].instance = instanceMap[cur[p].id],
                                    ![p].vol = credentials[CredOf(instanceMap[cur[p].id])]["volumeId"]]
              /\ Goto(p, "bind_call")
    /\ UNCHANGED <<instanceMap, instances, credentials, rwMutex, ret, volumes, attachments,
                   nextVol, nextAtc, calls, hist, nOps, overlap, fatal, waitVars, helperVars>>

\* atc, err := GetClient(c.Endpoint).CreateVolumeAttachment(in)
BindCall(p) ==
    /\ At(p, "bind_call")
    /\ \E ok \in BOOLEAN :
         IF ok
         THEN /\ attachments' = attachments \cup {nextAtc}
              /\ nextAtc' = nextAtc + 1
              /\ calls' = Append(calls, Call(p, "CreateVolumeAttachment", cur[p].vol, TRUE, nextAtc))
              /\ cur' = [cur EXCEPT ![p].atc = nextAtc]
              /\ Goto(p, "bind_setatc")
         ELSE /\ calls' = Append(calls, Call(p, "CreateVolumeAttachment", cur[p].vol, FALSE, 0))
              /\ Fail(p, ClientCallErr(ok))
              /\ Goto(p, "bind_runlock")
              /\ UNCHANGED <<attachments, nextAtc>>
    /\ UNCHANGED <<instanceMap, instances, credentials, rwMutex, ret, volumes, nextVol,
                   hist, nOps, overlap, fatal, waitVars, helperVars>>

\* (*instance.Credential)["attachmentId"] = atc.GetId()
BindSetAttachmentId(p) ==
    /\ At(p, "bind_setatc")
    /\ credentials' = [credentials EXCEPT ![CredOf(cur[p].instance)] =
                          Put(@, "attachmentId", cur[p].atc)]
    /\ Goto(p, "bind_setconn")
    /\ UNCHANGED <<instanceMap, instances, rwMutex, cur, ret, volumes, attachments,
                   nextVol, nextAtc, calls, hist, nOps, overlap, fatal, waitVars, helperVars>>

\* cred := instance.Credential; (*cred)["connectionInfo"] = atc.ConnectionInfo;
\* return &CreateServiceBindingResponse{Credentials: *cred}
BindSetConnectionInfo(p) ==
    /\ At(p, "bind_setconn")
    /\ LET cred == CredOf(cur[p].instance)
           new == Put(credentials[cred], "connectionInfo", ConnectionInfo(cur[p].atc))
       IN /\ credentials' = [credentials EXCEPT ![cred] = new]
          /\ cur' = [cur EXCEPT ![p].cred = new]
    /\ Goto(p, "bind_runlock")
    /\ UNCHANGED <<instanceMap, instances, rwMutex, ret, volumes, attachments,
                   nextVol, nextAtc, calls, hist, nOps, overlap, fatal, waitVars, helperVars>>

BindRUnlock(p) ==
    /\ At(p, "bind_runlock")
    /\ rwMutex' = [rwMutex EXCEPT !.readers = @ \ {p}]
    /\ Return(p)
    /\ UNCHANGED <<instanceMap, instances, credentials, volumes, attachments,
                   nextVol, nextAtc, calls, nOps, overlap, fatal, waitVars, helperVars>>

\* ------------------------------------------------------------- UnBind
UnBindRLock(p, id) ==
    /\ CanStart(p)
    /\ CanRLock
    /\ rwMutex' = [rwMutex EXCEPT !.readers = @ \cup {p}]
    /\ Begin(p, "UnBind", id)
    /\ Goto(p, "unbind_lookup")
    /\ UNCHANGED <<instanceMap, instances, credentials, volumes, attachments,
                   nextVol, nextAtc, calls, hist, fatal, waitVars, helperVars>>

UnBindLookup(p) ==
    /\ At(p, "unbind_lookup")
    /\ LET e == AttachmentLookupErr(cur[p].id) IN
         IF e # NoErr
         THEN /\ Fail(p, e)
              /\ Goto(p, "unbind_runlock")
         ELSE /\ cur' = [cur EXCEPT ![p].instance = instanceMap[cur[p].id],
                                    ![p].atc = credentials[CredOf(instanceMap[cur[p].id])]["attachmentId"]]
              /\ Goto(p, "unbind_call")
    /\ UNCHANGED <<instanceMap, instances, credentials, rwMutex, ret, volumes, attachments,
                   nextVol, nextAtc, calls, hist, nOps, overlap, fatal, waitVars, helperVars>>

\* GetClient(c.Endpoint).DeleteVolumeAttachment(atcInterface.(string), nil)
UnBindCall(p) ==
    /\ At(p, "unbind_call")
    /\ \E ok \in BOOLEAN :
         IF ok
         THEN /\ attachments' = attachments \ {cur[p].atc}
              /\ calls' = Append(calls, Call(p, "DeleteVolumeAttachment", cur[p].atc, TRUE, 0))
              /\ Goto(p, "unbind_clear")
              /\ UNCHANGED cur
         ELSE /\ calls' = Append(calls, Call(p, "DeleteVolumeAttachment", cur[p].atc, FALSE, 0))
              /\ Fail(p, ClientCallErr(ok))
              /\ Goto(p, "unbind_runlock")
              /\ UNCHANGED attachments
    /\ UNCHANGED <<instanceMap, instances, credentials, rwMutex, ret, volumes, nextVol,
                   nextAtc, hist, nOps, overlap, fatal, waitVars, helperVars>>

\* instance.Credential = &brokerapi.Credential{}
UnBindClear(p) ==
    /\ At(p, "unbind_clear")
    /\ credentials' = Append(credentials, UnBindCredential(credentials[CredOf(cur[p].instance)]))
    /\ instances' = [instances EXCEPT ![cur[p].instance].Credential = Len(credentials) + 1]
    /\ Goto(p, "unbind_runlock")
    /\ UNCHANGED <<instanceMap, rwMutex, cur, ret, volumes, attachments,
                   nextVol, nextAtc, calls, hist, nOps, overlap, fatal, waitVars, helperVars>>

UnBindRUnlock(p) ==
    /\ At(p, "unbind_runlock")
    /\ rwMutex' = [rwMutex EXCEPT !.readers = @ \ {p}]
    /\ Return(p)
    /\ UNCHANGED <<instanceMap, instances, credentials, volumes, attachments,
                   nextVol, nextAtc, calls, nOps, overlap, fatal, waitVars, helperVars>>

\* ------------------------------------------------------------- unsynchronised map access
\* Bind writes the credential map while holding only the read lock.  The
\* credential map goroutine p is about to write, if any:
WritesCred(p) ==
    IF pc[p] \in {"bind_setatc", "bind_setconn"} THEN {CredOf(cur[p].instance)} ELSE {}

\* the credential map goroutine p is about to read or write, if any
AccessesCred(p) ==
    IF pc[p] \in {"bind_lookup", "unbind_lookup"} /\ cur[p].id \in DOMAIN instanceMap
    THEN {CredOf(instanceMap[cur[p].id])}
    ELSE WritesCred(p)

\* Two goroutines inside the same Go map at once, one of them writing: the
\* runtime may order the accesses either way (the interleavings above) or stop
\* the process with "fatal error: concurrent map writes" / "concurrent map read
\* and map write".
ConcurrentMapAccess ==
    /\ ~fatal
    /\ \E p, q \in Procs : p # q /\ WritesCred(p) \cap AccessesCred(q) # {}
    /\ fatal' = TRUE
    /\ UNCHANGED <<instanceMap, instances, credentials, rwMutex, pc, cur, ret, volumes,
                   attachments, nextVol, nextAtc, calls, hist, nOps, overlap, waitVars, helperVars>>

Next ==
    \/ \E p \in Procs, id \in Ids : CreateLock(p, id)
    \/ \E p \in Procs : CreateCall(p)
    \/ \E p \in Procs : CreateUnlock(p)
    \/ \E p \in Procs, id \in Ids : RemoveLock(p, id)
    \/ \E p \in Procs : RemoveLookup(p)
    \/ \E p \in Procs : RemoveCall(p)
    \/ \E p \in Procs : RemoveUnlock(p)
    \/ \E p \in Procs, id \in Ids : BindRLock(p, id)
    \/ \E p \in Procs : BindLookup(p)
    \/ \E p \in Procs : BindCall(p)
    \/ \E p \in Procs : BindSetAttachmentId(p)
    \/ \E p \in Procs : BindSetConnectionInfo(p)
    \/ \E p \in Procs : BindRUnlock(p)
    \/ \E p \in Procs, id \in Ids : UnBindRLock(p, id)
    \/ \E p \in Procs : UnBindLookup(p)
    \/ \E p \in Procs : UnBindCall(p)
    \/ \E p \in Procs : UnBindClear(p)
    \/ \E p \in Procs : UnBindRUnlock(p)
    \/ ConcurrentMapAccess

Spec == Init /\ [][Next]_vars

\* ------------------------------------------------------------- waitForPathToExistInternal
\* what osStat(*devicePath) can answer: nil, os.ErrNotExist, any other error
StatResults ==
    {[err |-> e, matches |-> <<>>] : e \in {"nil", "notexist", "other"}}

\* what filepathGlob(*devicePath) can answer: no match (nil), a malformed
\* pattern (nil and an error), one match, several matches
GlobResults ==
    {[err |-> "nil", matches |-> <<>>], [err |-> "badpattern", matches |-> <<>>],
     [err |-> "nil", matches |-> <<"dev-a">>], [err |-> "nil", matches |-> <<"dev-a", "dev-b">>]}

ProbeResults(tcp) == IF tcp THEN StatResults ELSE GlobResults

\* err after the probe of one attempt: osStat's error for tcp; for the other
\* transports fpath, _ := filepathGlob(...), os.ErrNotExist when fpath == nil
ProbeErr(tcp, r) ==
    IF tcp THEN r.err
    ELSE IF r.matches = <<>> THEN "notexist" ELSE "nil"

\* *devicePath = fpath[0]
ProbePath(tcp, r, path) ==
    IF ~tcp /\ r.matches # <<>> THEN r.matches[1] ELSE path

\* variant: every error counts as "does not exist"
IsNotExistAnyError(e) == e # "nil"

\* os.IsNotExist(err)
IsNotExist(e) == e = "notexist"

\* variant: the break compares with maxRetries, one pass too late
IsLastAttemptOffByOne(i, maxRetries) == i = maxRetries

\* if i == maxRetries-1 { break }
IsLastAttempt(i, maxRetries) == i = maxRetries - 1

LoopConditionOffByOne(i, maxRetries) == i <= maxRetries
\* for i := 0; i < maxRetries; i++
LoopCondition(i, maxRetries) == i < maxRetries

WaitEnter ==
    /\ HelperIdle
    /\ wpc \in {"idle", "done"}
    /\ \E nilPath \in BOOLEAN, maxRetries \in 0..MaxRetriesBound, tcp \in BOOLEAN :
         /\ wargs' = [nilPath |-> nilPath, maxRetries |-> maxRetries, tcp |-> tcp]
         /\ IF nilPath
            THEN wpc' = "done" /\ wret' = "false"
            ELSE wpc' = "loop" /\ wret' = "none"
    /\ wi' = 0
    /\ wpath' = "path"
    /\ wlog' = <<>>
    /\ UNCHANGED <<regVars, helperVars>>

\* one pass through the loop body, from the probe to the decision
WaitProbe ==
    /\ ~exited
    /\ wpc = "loop"
    /\ LoopCondition(wi, wargs.maxRetries)
    /\ \E r \in ProbeResults(wargs.tcp) :
         LET err == ProbeErr(wargs.tcp, r) IN
         /\ wpath' = ProbePath(wargs.tcp, r, wpath)
         /\ wlog' = Append(wlog, [ev |-> "probe", attempt |-> wi + 1, err |-> err])
         /\ IF err = "nil" THEN wpc' = "done" /\ wret' = "true"
            ELSE IF ~IsNotExist(err) THEN wpc' = "done" /\ wret' = "false"
            ELSE IF IsLastAttempt(wi, wargs.maxRetries) THEN wpc' = "done" /\ wret' = "false"
            ELSE wpc' = "sleep" /\ UNCHANGED wret
    /\ UNCHANGED <<wargs, wi, regVars, helperVars>>

\* time.Sleep(time.Second); i++
WaitSleep ==
    /\ ~exited
    /\ wpc = "sleep"
    /\ wlog' = Append(wlog, [ev |-> "sleep", attempt |-> wi + 1, err |-> "nil"])
    /\ wi' = wi + 1
    /\ wpc' = "loop"
    /\ UNCHANGED <<wargs, wpath, wret, regVars, helperVars>>

\* the loop condition i < maxRetries fails: return false
WaitExit ==
    /\ ~exited
    /\ wpc = "loop"
    /\ ~LoopCondition(wi, wargs.maxRetries)
    /\ wpc' = "done"
    /\ wret' = "false"
    /\ UNCHANGED <<wargs, wi, wpath, wlog, regVars, helperVars>>

NextWait == WaitEnter \/ WaitProbe \/ WaitSleep \/ WaitExit

SpecWait == Init /\ [][NextWait]_vars

\* ------------------------------------------------------------- iscsi helper: common
\* waitForPathToExist(&devicePath, 1, ISCSITranslateTCP)
ConnectFirstRetries == 1
\* waitForPathToExist(&devicePath, 10, ISCSITranslateTCP)
ConnectPollRetries == 10

\* "/dev/disk/by-path/ip" - portal - "iscsi" - targetiqn - "lun" - targetlun
DevicePath == "/dev/disk/by-path/ip-portal-iscsi-iqn-lun-0"

\* errors.New("Could not connect volume: Timeout after 10s")
ErrTimeout == "Could not connect volume: Timeout after 10s"
\* the error of exec.Command(...).CombinedOutput() for a tool that failed
ErrExec == "exit status 1"

\* one thing the running function did: a tool it ran, a probe, a sleep
Entry(cmd, ok, info) == [cmd |-> cmd, ok |-> ok, info |-> info]

\* the probes and sleeps of the poll that runs or has just returned
WaitEvents ==
    [k \in 1..Len(wlog) |-> Entry(wlog[k].ev, wlog[k].err = "nil", wlog[k].err)]

\* everything the running function has done, its current poll included
HelperLog ==
    IF hpc \in {"connect_probe", "connect_poll"} THEN cmds \o WaitEvents ELSE cmds

\* a helper function may be called: the thread is not inside another one
HelperFree == HelperIdle /\ wpc \in {"idle", "done"}

HelperEnter(fn, auth, fstype, at) ==
    /\ HelperFree
    /\ hop' = [fn |-> fn, auth |-> auth, fstype |-> fstype]
    /\ cmds' = <<>>
    /\ hret' = NoHret
    /\ hpc' = at

\* log.Fatalf / log.Fatalln: print, then os.Exit(1); the return after it never runs
LogFatal ==
    /\ exited' = TRUE
    /\ UNCHANGED <<hpc, hret>>

\* return path, err
HelperReturn(path, err) ==
    /\ hret' = [path |-> path, err |-> err]
    /\ hpc' = "done"

\* waitForPathToExist(&devicePath, maxRetries, ISCSITranslateTCP)
WaitCall(maxRetries) ==
    /\ wargs' = [nilPath |-> FALSE, maxRetries |-> maxRetries, tcp |-> TRUE]
    /\ wi' = 0
    /\ wpath' = DevicePath
    /\ wlog' = <<>>
    /\ wret' = "none"
    /\ wpc' = "loop"

\* ------------------------------------------------------------- Connect
ConnectEnter ==
    /\ \E auth \in BOOLEAN : HelperEnter("Connect", auth, "", "connect_probe")
    /\ WaitCall(ConnectFirstRetries)
    /\ UNCHANGED <<exited, loggedIn, devFs, regVars>>

FirstProbeFoundNever == FALSE
\* isexist of the first probe: if !isexist { discovery ... }
FirstProbeFound == wret = "true"

\* isexist := waitForPathToExist(&devicePath, 1, tcp); if !isexist { ... }; return devicePath, nil
ConnectProbed ==
    /\ ~exited
    /\ hpc = "connect_probe"
    /\ wpc = "done"
    /\ cmds' = cmds \o WaitEvents
    /\ IF FirstProbeFound
       THEN HelperReturn(wpath, NoErr)
       ELSE hpc' = "connect_discovery" /\ UNCHANGED hret
    /\ UNCHANGED <<hop, exited, loggedIn, devFs, waitVars, regVars>>

AfterDiscoverySkipsAuth(auth) == "connect_login"
\* if len(conn.AuthMethod) != 0 { SetAuth(...) }; Login
AfterDiscovery(auth) == IF auth THEN "connect_setusername" ELSE "connect_login"

\* Discovery(portal): iscsiadm -m discovery -t sendtargets -p portal
ConnectDiscovery ==
    /\ ~exited
    /\ hpc = "connect_discovery"
    /\ \E ok \in BOOLEAN :
         /\ cmds' = Append(cmds, Entry("discovery", ok, ""))
         /\ IF ok
            THEN /\ hpc' = AfterDiscovery(hop.auth)
                 /\ UNCHANGED <<hret, exited>>
            ELSE LogFatal
    /\ UNCHANGED <<hop, loggedIn, devFs, waitVars, regVars>>

\* SetAuth: --op=update --name node.session.auth.username
ConnectSetUsername ==
    /\ ~exited
    /\ hpc = "connect_setusername"
    /\ \E ok \in BOOLEAN :
         /\ cmds' = Append(cmds, Entry("setusername", ok, ""))
         /\ IF ok
            THEN hpc' = "connect_setpassword" /\ UNCHANGED <<hret, exited>>
            ELSE LogFatal
    /\ UNCHANGED <<hop, loggedIn, devFs, waitVars, regVars>>

\* SetAuth: --op=update --name node.session.auth.password; Connect drops SetAuth's result
ConnectSetPassword ==
    /\ ~exited
    /\ hpc = "connect_setpassword"
    /\ \E ok \in BOOLEAN :
         /\ cmds' = Append(cmds, Entry("setpassword", ok, ""))
         /\ IF ok
            THEN hpc' = "connect_login" /\ UNCHANGED <<hret, exited>>
            ELSE LogFatal
    /\ UNCHANGED <<hop, loggedIn, devFs, waitVars, regVars>>

\* Login(portal, targetiqn), then isexist = waitForPathToExist(&devicePath, 10, tcp)
ConnectLogin ==
    /\ ~exited
    /\ hpc = "connect_login"
    /\ \E ok \in BOOLEAN :
         /\ cmds' = Append(cmds, Entry("login", ok, ""))
         /\ IF ok
            THEN /\ loggedIn' = TRUE
                 /\ hpc' = "connect_poll"
                 /\ WaitCall(ConnectPollRetries)
                 /\ UNCHANGED <<hret, exited>>
            ELSE /\ LogFatal
                 /\ UNCHANGED <<loggedIn, waitVars>>
    /\ UNCHANGED <<hop, devFs, regVars>>

ConnectResultAlwaysPath(found, path) == [path |-> path, err |-> NoErr]
\* what Connect returns after the poll
ConnectResult(found, path) ==
    IF found THEN [path |-> path, err |-> NoErr] ELSE [path |-> "", err |-> ErrTimeout]

\* if !isexist { return "", errors.New(...) }; return devicePath, nil
ConnectPolled ==
    /\ ~exited
    /\ hpc = "connect_poll"
    /\ wpc = "done"
    /\ cmds' = cmds \o WaitEvents
    /\ LET r == ConnectResult(wret = "true", wpath) IN HelperReturn(r.path, r.err)
    /\ UNCHANGED <<hop, exited, loggedIn, devFs, waitVars, regVars>>

\* ------------------------------------------------------------- Disconnect
DisconnectEnter ==
    /\ HelperEnter("Disconnect", FALSE, "", "disconnect_logout")
    /\ UNCHANGED <<exited, loggedIn, devFs, waitVars, regVars>>

\* Logout(portal, targetiqn)
DisconnectLogout ==
    /\ ~exited
    /\ hpc = "disconnect_logout"
    /\ \E ok \in BOOLEAN :
         /\ cmds' = Append(cmds, Entry("logout", ok, ""))
         /\ IF ok
            THEN /\ loggedIn' = FALSE
                 /\ hpc' = "disconnect_delete"
                 /\ UNCHANGED <<hret, exited>>
            ELSE /\ LogFatal
                 /\ UNCHANGED loggedIn
    /\ UNCHANGED <<hop, devFs, waitVars, regVars>>

\* Delete(targetiqn); return nil
DisconnectDelete ==
    /\ ~exited
    /\ hpc = "disconnect_delete"
    /\ \E ok \in BOOLEAN :
         /\ cmds' = Append(cmds, Entry("delete", ok, ""))
         /\ IF ok
            THEN HelperReturn("", NoErr) /\ UNCHANGED exited
            ELSE LogFatal
    /\ UNCHANGED <<hop, loggedIn, devFs, waitVars, regVars>>

\* ------------------------------------------------------------- GetFSType, Format
\* one word of blkid's output line: KEY="value"
Tok(key, val) == [key |-> key, val |-> val]

\* what execCmd("blkid", device) can answer for a device with signature fs:
\* a failure; for a device without filesystem, a line that names only its
\* partition table; for a formatted one, a line with its TYPE
BlkidResults(fs) ==
    {[ok |-> FALSE, out |-> <<>>]} \cup
    (IF fs = ""
     THEN {[ok |-> TRUE, out |-> <<Tok("PTUUID", "1"), Tok("PTTYPE", "dos")>>]}
     ELSE {[ok |-> TRUE, out |-> <<Tok("UUID", "1"), Tok("TYPE", fs)>>]})

\* strings.Contains(v, "TYPE="): true of TYPE=, PTTYPE= and SEC_TYPE= words
ContainsTYPE(t) == t.key \in {"TYPE", "PTTYPE", "SEC_TYPE"}

\* GetFSType: "" when blkid failed, else the value of the last word holding "TYPE="
GetFSType(r) ==
    IF ~r.ok THEN ""
    ELSE LET ks == {k \in 1..Len(r.out) : ContainsTYPE(r.out[k])}
         IN IF ks = {} THEN ""
            ELSE r.out[CHOOSE k \in ks : \A j \in ks : j <= k].val

\* if fstype == "" { fstype = "ext4" }
MkfsType(fstype) == IF fstype = "" THEN "ext4" ELSE fstype

NeedsMkfsAlways(curFSType) == TRUE
\* Format must run mkfs: the device looks unformatted
NeedsMkfs(curFSType) == curFSType = ""

FormatEnter ==
    /\ \E fstype \in {"", "xfs"} : HelperEnter("Format", FALSE, fstype, "format_getfstype")
    /\ UNCHANGED <<exited, loggedIn, devFs, waitVars, regVars>>

\* curFSType := GetFSType(device); if curFSType == "" { ... } else { log }; return nil
FormatGetFSType ==
    /\ ~exited
    /\ hpc = "format_getfstype"
    /\ \E r \in BlkidResults(devFs) :
         /\ cmds' = Append(cmds, Entry("blkid", r.ok, devFs))
         /\ IF NeedsMkfs(GetFSType(r))
            THEN hpc' = "format_mkfs" /\ UNCHANGED hret
            ELSE HelperReturn("", NoErr)
    /\ UNCHANGED <<hop, exited, loggedIn, devFs, waitVars, regVars>>

\* execCmd("mkfs", "-t", fstype, "-F", device)
FormatMkfs ==
    /\ ~exited
    /\ hpc = "format_mkfs"
    /\ \E ok \in BOOLEAN :
         /\ cmds' = Append(cmds, Entry("mkfs", ok, devFs))
         /\ IF ok
            THEN /\ devFs' = MkfsType(hop.fstype)
                 /\ HelperReturn("", NoErr)
                 /\ UNCHANGED exited
            ELSE /\ LogFatal
                 /\ UNCHANGED devFs
    /\ UNCHANGED <<hop, loggedIn, waitVars, regVars>>

NextHelper ==
    \/ WaitEnter
    \/ WaitProbe
    \/ WaitSleep
    \/ WaitExit
    \/ ConnectEnter
    \/ ConnectProbed
    \/ ConnectDiscovery
    \/ ConnectSetUsername
    \/ ConnectSetPassword
    \/ ConnectLogin
    \/ ConnectPolled
    \/ DisconnectEnter
    \/ DisconnectLogout
    \/ DisconnectDelete
    \/ FormatEnter
    \/ FormatGetFSType
    \/ FormatMkfs

SpecHelper == Init /\ [][NextHelper]_vars

\* the thread that runs a helper function keeps running until the function
\* returns or the process exits
FairSpecHelper == SpecHelper /\ WF_vars(NextHelper)

\* ------------------------------------------------------------- properties: notions
\* the credential set of a present instance id
Cred(id) == credentials[CredOf(instanceMap[id])]

\* some goroutine is inside a handler called with this id
InFlight(id) == \E p \in Procs : pc[p] # "idle" /\ cur[p].id = id

\* the control-plane calls made for id that succeeded, in order
OkCalls(id) ==
    LET Mine(c) == c.ok /\ c.id = id IN SelectSeq(calls, Mine)

\* the control-plane call made by broker call number n, as a set (empty: none made)
CallsOf(n) == {k \in 1..Len(calls) : calls[k].opid = n}

\* volume v was created by a CreateServiceInstance on id
VolumeCreatedFor(v, id) ==
    \E k \in 1..Len(calls) :
        calls[k].fn = "CreateVolume" /\ calls[k].ok /\ calls[k].res = v /\ calls[k].id = id

\* attachment a was created by a Bind on id
AttachmentCreatedFor(a, id) ==
    \E k \in 1..Len(calls) :
        /\ calls[k].fn = "CreateVolumeAttachment" /\ calls[k].ok
        /\ calls[k].res = a /\ calls[k].id = id

\* the volume id the latest successful create on id produced
CreatedVolume(id) ==
    LET ks == {k \in 1..Len(calls) :
                  calls[k].fn = "CreateVolume" /\ calls[k].ok /\ calls[k].id = id}
    IN calls[CHOOSE k \in ks : \A j \in ks : j <= k].res

\* the instance is bound: its credentials hold an attachment id
Bound(id) == id \in DOMAIN instanceMap /\ Has(Cred(id), "attachmentId")

\* ------------------------------------------------------------- C1
\* C1: after CreateServiceInstance(id), Bind(id), UnBind(id) succeeded one
\* after the other, the credential set of id still holds the volume id the
\* create produced and holds neither attachmentId nor connectionInfo.
C1_UnBindKeepsVolumeId ==
    \A id \in Ids :
        (hist[id] = <<"Create", "Bind", "UnBind">> /\ ~overlap /\ ~InFlight(id)) =>
            /\ id \in DOMAIN instanceMap
            /\ ~Has(Cred(id), "attachmentId")
            /\ ~Has(Cred(id), "connectionInfo")
            /\ Has(Cred(id), "volumeId")
            /\ Cred(id)["volumeId"] = CreatedVolume(id)

\* ------------------------------------------------------------- C2
\* C2: while RemoveServiceInstance runs on an id that is bound, no step of it
\* deletes a volume at the control plane or removes an entry of the registry.
C2_RemoveRefusesBound ==
    [][\A p \in Procs :
          (cur[p].op = "Remove" /\ Bound(cur[p].id)) =>
              (volumes' = volumes /\ instanceMap' = instanceMap)]_vars

\* ------------------------------------------------------------- C3
\* C3: once create and then remove have succeeded on id with no successful
\* call on id in between, id is not in the registry, and the successful
\* control-plane calls made for id end with CreateVolume followed by
\* DeleteVolume of the volume id that CreateVolume returned.
C3_CreateThenRemove ==
    \A id \in Ids :
        (hist[id] = <<"Create", "Remove">> /\ ~InFlight(id)) =>
            /\ id \notin DOMAIN instanceMap
            /\ LET L == OkCalls(id)
                   n == Len(L)
               IN /\ n >= 2
                  /\ L[n - 1].fn = "CreateVolume"
                  /\ L[n].fn = "DeleteVolume"
                  /\ L[n].arg = L[n - 1].res
                  /\ L[n].arg \notin volumes

C3_Witness ==
    \E id \in Ids : hist[id] = <<"Create", "Remove">> /\ ~InFlight(id)

\* ------------------------------------------------------------- C4
\* C4: an id is in the registry exactly when some volume created for it
\* still exists at the control plane.
C4_PresentIffVolumeExists ==
    \A id \in Ids :
        (id \in DOMAIN instanceMap) <=> (\E v \in volumes : VolumeCreatedFor(v, id))

C6_RemoveAbsent ==
    [][\A p \in Procs :
          /\ (pc[p] = "remove_lookup" /\ cur[p].id \notin DOMAIN instanceMap) =>
                 /\ pc'[p] = "remove_unlock"
                 /\ cur'[p].err = ErrNoSuchInstance
                 /\ calls' = calls
                 /\ UNCHANGED <<instanceMap, instances, credentials>>
          /\ (pc[p] = "remove_unlock" /\ cur[p].err = ErrNoSuchInstance) =>
                 /\ pc'[p] = "idle"
                 /\ ret'[p].op = "Remove"
                 /\ ret'[p].err = ErrNoSuchInstance
                 /\ CallsOf(ret'[p].opid) = {}
                 /\ calls' = calls
                 /\ UNCHANGED <<instanceMap, instances, credentials>>]_vars

C6_Witness ==
    \E p \in Procs :
        ret[p].op = "Remove" /\ ret[p].err = ErrNoSuchInstance /\ CallsOf(ret[p].opid) = {}

\* ------------------------------------------------------------- C7
\* C7: Bind on an id that is present but whose credential set has no volume
\* id ends with the volume-id-not-provided error, which is not the
\* no-such-instance error; none of its steps calls the control plane or
\* changes a credential set.
C7_BindWithoutVolumeId ==
    [][\A p \in Procs :
          /\ ( /\ pc[p] = "bind_lookup" /\ pc'[p] # pc[p]
               /\ cur[p].id \in DOMAIN instanceMap
               /\ ~Has(Cred(cur[p].id), "volumeId") ) =>
                 /\ pc'[p] = "bind_runlock"
                 /\ cur'[p].err = ErrVolumeIdNotProvided
                 /\ cur'[p].err # ErrNoSuchInstance
                 /\ calls' = calls
                 /\ UNCHANGED <<instanceMap, instances, credentials>>
          /\ ( /\ pc[p] = "bind_runlock" /\ pc'[p] # pc[p]
               /\ cur[p].err = ErrVolumeIdNotProvided ) =>
                 /\ pc'[p] = "idle"
                 /\ ret'[p].op = "Bind"
                 /\ ret'[p].err = ErrVolumeIdNotProvided
                 /\ CallsOf(ret'[p].opid) = {}
                 /\ calls' = calls
                 /\ UNCHANGED <<instanceMap, instances, credentials>>]_vars

C7_Witness ==
    \E p \in Procs :
        ret[p].op = "Bind" /\ ret[p].err = ErrVolumeIdNotProvided /\ CallsOf(ret[p].opid) = {}

\* ------------------------------------------------------------- C8
\* a goroutine is between Lock and Unlock of Create or Remove
InWriteSection(p) ==
    pc[p] \in {"create_call", "create_unlock", "remove_lookup", "remove_call", "remove_unlock"}

\* a goroutine is between RLock and RUnlock of Bind or UnBind
InReadSection(p) ==
    pc[p] \in {"bind_lookup", "bind_call", "bind_setatc", "bind_setconn", "bind_runlock",
               "unbind_lookup", "unbind_call", "unbind_clear", "unbind_runlock"}

\* C8: while a goroutine is inside the locked section of Create or Remove, no
\* other goroutine is inside the locked section of any of the four handlers.
C8_WritersExclusive ==
    \A p \in Procs : \A q \in Procs \ {p} :
        InWriteSection(p) => ~(InWriteSection(q) \/ InReadSection(q))

\* a Remove waits for the control plane while another goroutine has already
\* been served
C8_Witness ==
    \E p \in Procs : \E q \in Procs \ {p} :
        pc[p] = "remove_call" /\ ret[q].op \in {"Bind", "UnBind"}

\* ------------------------------------------------------------- C9
\* C9: the credential set a successful Bind returns holds the volume id the
\* attachment was made for, the attachment id this Bind created and the
\* connection info that came with it.
C9_BindReturnsFullCredential ==
    \A p \in Procs :
        (ret[p].op = "Bind" /\ ret[p].err = NoErr) =>
            \A k \in CallsOf(ret[p].opid) :
                /\ Has(ret[p].cred, "volumeId")
                /\ ret[p].cred["volumeId"] = calls[k].arg
                /\ Has(ret[p].cred, "attachmentId")
                /\ ret[p].cred["attachmentId"] = calls[k].res
                /\ Has(ret[p].cred, "connectionInfo")
                /\ ret[p].cred["connectionInfo"] = ConnectionInfo(calls[k].res)

\* ------------------------------------------------------------- C10
\* the probes among the first k entries of the log
ProbesUpTo(k) == Cardinality({j \in 1..k : wlog[j].ev = "probe"})

\* C10: with maxRetries >= 1, a probe that reports existence is the last
\* thing the poll does and makes it return true, true is returned for no
\* other reason, and every sleep comes before the maxRetries-th probe.
C10_WaitStopsAtFirstSuccess ==
    (wargs.maxRetries >= 1 /\ ~wargs.nilPath) =>
        /\ \A k \in 1..Len(wlog) :
               (wlog[k].ev = "probe" /\ wlog[k].err = "nil") =>
                   (k = Len(wlog) /\ wpc = "done" /\ wret = "true")
        /\ wret = "true" =>
               (Len(wlog) >= 1 /\ wlog[Len(wlog)].ev = "probe" /\ wlog[Len(wlog)].err = "nil")
        /\ \A k \in 1..Len(wlog) :
               wlog[k].ev = "sleep" => ProbesUpTo(k) < wargs.maxRetries
        /\ ProbesUpTo(Len(wlog)) <= wargs.maxRetries

\* the poll succeeded on its last allowed attempt, after sleeping in between
C10_Witness ==
    /\ wpc = "done" /\ wret = "true"
    /\ wargs.maxRetries >= 2
    /\ ProbesUpTo(Len(wlog)) = wargs.maxRetries

\* ------------------------------------------------------------- C11
\* C11: an attempt whose probe leaves an error other than not-exist in err
\* is the last thing the poll does and makes it return false (no sleep, no
\* further attempt); every probe that is followed by anything left
\* not-exist in err.
C11_WaitFailsOnOtherError ==
    /\ \A k \in 1..Len(wlog) :
           (wlog[k].ev = "probe" /\ wlog[k].err \notin {"nil", "notexist"}) =>
               (k = Len(wlog) /\ wpc = "done" /\ wret = "false")
    /\ \A k \in 1..Len(wlog) :
           (wlog[k].ev = "probe" /\ k < Len(wlog)) =>
               (wlog[k].err = "notexist" /\ wlog[k + 1].ev = "sleep")

\* the poll gave up on an error of the second attempt with attempts left
C11_Witness ==
    /\ wpc = "done" /\ wret = "false"
    /\ Len(wlog) = 3
    /\ wlog[3].ev = "probe" /\ wlog[3].err = "other"
    /\ wargs.maxRetries > 2

\* ------------------------------------------------------------- properties: iscsi helper
\* the tools (not probes or sleeps) the running function has run so far
ToolsRun == SelectSeq(HelperLog, LAMBDA e : e.cmd \notin {"probe", "sleep"})

\* C12: when the first probe of Connect finds the path, Connect runs no
\* discovery, no authentication update and no login, does not exit, and
\* returns the device path with a nil error.
C12_ConnectExistingPath ==
    (/\ hop.fn = "Connect"
     /\ Len(HelperLog) >= 1
     /\ HelperLog[1] = Entry("probe", TRUE, "nil")) =>
        /\ HelperLog = <<Entry("probe", TRUE, "nil")>>
        /\ ToolsRun = <<>>
        /\ ~exited
        /\ hpc \in {"connect_probe", "done"}
        /\ hpc = "done" => hret = [path |-> DevicePath, err |-> NoErr]

C12_Witness ==
    /\ hop.fn = "Connect"
    /\ hpc = "done"
    /\ cmds = <<Entry("probe", TRUE, "nil")>>
    /\ hret = [path |-> DevicePath, err |-> NoErr]

\* where in the log a tool was run (empty when it was not)
RunsOf(cmd) == {k \in 1..Len(HelperLog) : HelperLog[k].cmd = cmd}

\* the probes made after the login, and those of them that found no path
PostLoginProbes ==
    {k \in RunsOf("probe") : \E l \in RunsOf("login") : l < k}
PostLoginAbsent ==
    {k \in PostLoginProbes : HelperLog[k].info = "notexist"}

\* C13: a Connect whose discovery and login succeeded and whose 10 probes
\* after the login all found the path absent stops probing, runs no logout
\* and no node delete, leaves the session logged in, and returns an empty
\* path with the timeout error, which is neither nil nor a tool's error.
C13_ConnectTimeout ==
    (/\ hop.fn = "Connect"
     /\ Cardinality(PostLoginAbsent) = ConnectPollRetries) =>
        /\ \E d \in RunsOf("discovery") : HelperLog[d].ok
        /\ \E l \in RunsOf("login") : HelperLog[l].ok
        /\ PostLoginProbes = PostLoginAbsent
        /\ RunsOf("logout") = {} /\ RunsOf("delete") = {}
        /\ loggedIn
        /\ ~exited
        /\ hpc \in {"connect_poll", "done"}
        /\ hpc = "connect_poll" => (wpc = "done" /\ wret = "false")
        /\ hpc = "done" =>
              /\ hret = [path |-> "", err |-> ErrTimeout]
              /\ hret.err \notin {NoErr, ErrExec}

C13_Witness ==
    /\ hop.fn = "Connect"
    /\ hpc = "done"
    /\ Cardinality(PostLoginAbsent) = ConnectPollRetries
    /\ hret.err = ErrTimeout
    /\ loggedIn

\* the tools of a Connect that goes all the way, in the order of the code
ConnectTools(auth) ==
    IF auth THEN <<"discovery", "setusername", "setpassword", "login">>
    ELSE <<"discovery", "login">>

\* C14: in a Connect whose first probe did not find the path, the tools run
\* are a prefix of discovery, (set username, set password when the auth method
\* is non-empty,) login; each tool runs only after the one before it
\* succeeded, so discovery runs at most once and login only after a
\* successful discovery; and every probe or sleep after the first probe
\* comes after a successful login and after every tool.
C14_ConnectOrder ==
    (/\ hop.fn = "Connect"
     /\ Len(HelperLog) >= 1
     /\ ~HelperLog[1].ok) =>
        /\ HelperLog[1].cmd = "probe"
        /\ Len(ToolsRun) <= Len(ConnectTools(hop.auth))
        /\ \A k \in 1..Len(ToolsRun) :
              /\ ToolsRun[k].cmd = ConnectTools(hop.auth)[k]
              /\ k < Len(ToolsRun) => ToolsRun[k].ok
        /\ Cardinality(RunsOf("discovery")) <= 1
        /\ \A l \in RunsOf("login") : \E d \in RunsOf("discovery") : d < l /\ HelperLog[d].ok
        /\ \A k \in 2..Len(HelperLog) :
              HelperLog[k].cmd \in {"probe", "sleep"} =>
                 /\ \E l \in RunsOf("login") : l < k /\ HelperLog[l].ok
                 /\ \A t \in 1..Len(HelperLog) :
                       HelperLog[t].cmd \notin {"probe", "sleep"} => t < k
        /\ hpc = "connect_poll" => \E l \in RunsOf("login") : HelperLog[l].ok

C14_Witness ==
    /\ hop.fn = "Connect"
    /\ hop.auth
    /\ hpc = "done"
    /\ Len(ToolsRun) = 4
    /\ Cardinality(PostLoginProbes) = 2
    /\ hret.err = NoErr

\* the authentication updates that failed
AuthFailures ==
    {k \in RunsOf("setusername") \cup RunsOf("setpassword") : ~HelperLog[k].ok}

\* C15: when the auth method is non-empty and the set-username or the
\* set-password update has failed, Connect has run no login and has returned
\* an error to its caller.
C15_AuthFailureAborts ==
    (/\ hop.fn = "Connect"
     /\ hop.auth
     /\ AuthFailures # {}) =>
        /\ RunsOf("login") = {}
        /\ hpc = "done"
        /\ hret.err # NoErr

\* C16: Disconnect runs logout and then delete, in that order; when the
\* logout has failed, delete is not run and Disconnect has returned the
\* logout's error; Disconnect returns nil only after both have succeeded.
C16_DisconnectOrder ==
    hop.fn = "Disconnect" =>
        /\ Len(HelperLog) <= 2
        /\ Len(HelperLog) >= 1 => HelperLog[1].cmd = "logout"
        /\ Len(HelperLog) = 2 => (HelperLog[1].ok /\ HelperLog[2].cmd = "delete")
        /\ (Len(HelperLog) >= 1 /\ ~HelperLog[1].ok) =>
              /\ RunsOf("delete") = {}
              /\ hpc = "done"
              /\ hret.err = ErrExec
        /\ (hpc = "done" /\ hret.err = NoErr) =>
              /\ Len(HelperLog) = 2
              /\ HelperLog[1].ok /\ HelperLog[2].ok

\* C17: Format runs mkfs only on a device that carried no filesystem
\* signature when mkfs started, whatever the signature probe answered.
C17_FormatKeepsFilesystem ==
    hop.fn = "Format" =>
        \A k \in RunsOf("mkfs") : HelperLog[k].info = ""

\* C17 (amended): when the signature probe succeeds on a device that carries
\* a filesystem signature, Format runs no mkfs, keeps the filesystem and
\* returns nil.
C17_FormatKeepsProbedFilesystem ==
    (/\ hop.fn = "Format"
     /\ Len(HelperLog) >= 1
     /\ HelperLog[1].ok
     /\ HelperLog[1].info # "") =>
        /\ HelperLog[1].cmd = "blkid"
        /\ RunsOf("mkfs") = {}
        /\ devFs = HelperLog[1].info
        /\ ~exited
        /\ hpc = "done"
        /\ hret.err = NoErr

C17_Witness ==
    /\ hop.fn = "Format"
    /\ hop.fstype = "xfs"
    /\ devFs = "ext4"
    /\ hpc = "done"
    /\ cmds = <<Entry("blkid", TRUE, "ext4")>>

\* ------------------------------------------------------------- properties: registry, continued
\* C18: in a sequential run, a RemoveServiceInstance(id) or Bind(id) called
\* after CreateServiceInstance(id), Bind(id), UnBind(id) succeeded, and whose
\* control-plane call did not fail, succeeds; after the remove, id is not in
\* the registry.
C18_LifecycleAfterUnBind ==
    \A p \in Procs :
        LET r == ret[p] IN
        (/\ ~overlap
         /\ \A q \in Procs : pc[q] = "idle"
         /\ r.op \in {"Remove", "Bind"}
         /\ r.opid = nOps
         /\ hist[r.id] \in {<<"Create", "Bind", "UnBind">>,
                            <<"Create", "Bind", "UnBind", r.op>>}
         /\ \A k \in CallsOf(r.opid) : calls[k].ok) =>
            /\ r.err = NoErr
            /\ r.op = "Remove" => r.id \notin DOMAIN instanceMap

\* the handler that goroutine p runs has had its control-plane call fail
\* (seen in the state after the step)
ClientCallFailed(p) ==
    /\ cur[p].opid # 0
    /\ \E k \in 1..Len(calls') : calls'[k].opid = cur[p].opid /\ ~calls'[k].ok

\* C19: the step in which a handler's control-plane call fails, and every
\* later step of that handler, leaves the registry (the map, its entries
\* and every credential set) unchanged, and the handler returns the call's
\* error.
C19_ClientFailureNoChange ==
    [][\A p \in Procs :
          (pc'[p] # pc[p] /\ ClientCallFailed(p)) =>
              /\ instanceMap' = instanceMap
              /\ instances' = instances
              /\ credentials' = credentials
              /\ pc'[p] = "idle" =>
                    (ret'[p].opid = cur[p].opid /\ ret'[p].err = ErrClient)]_vars

C19_Witness ==
    \E p, q \in Procs :
        /\ pc[p] = "idle" /\ pc[q] = "idle"
        /\ ret[p].op = "Remove" /\ ret[p].err = ErrClient
        /\ ret[p].id \in DOMAIN instanceMap
        /\ \E k \in CallsOf(ret[p].opid) : calls[k].fn = "DeleteVolume" /\ ~calls[k].ok
        /\ ret[q].op = "UnBind" /\ ret[q].err = ErrClient
        /\ Has(Cred(ret[q].id), "attachmentId")

\* ------------------------------------------------------------- properties: termination
\* the sleeps of the poll that runs or has just returned
SleepsOfPoll == Cardinality({j \in 1..Len(wlog) : wlog[j].ev = "sleep"})

\* the poll made at most maxRetries probes and at most max(maxRetries-1, 0)
\* sleeps, none at all with maxRetries = 0, and a Connect made at most
\* 1 + 10 probes
PollBounds ==
    /\ ProbesUpTo(Len(wlog)) <= wargs.maxRetries
    /\ SleepsOfPoll <= (IF wargs.maxRetries >= 1 THEN wargs.maxRetries - 1 ELSE 0)
    /\ wargs.maxRetries = 0 => wlog = <<>>
    /\ (wargs.maxRetries = 0 /\ wpc = "done") => wret = "false"
    /\ hop.fn = "Connect" =>
          Cardinality(RunsOf("probe")) <= ConnectFirstRetries + ConnectPollRetries

\* C20: for every maxRetries >= 0 and all probe outcomes a poll that has
\* started returns, having made at most maxRetries probes and at most
\* max(maxRetries-1, 0) sleeps; with maxRetries = 0 it returns false without
\* a probe; a Connect that has started comes to its end (it returns, or the
\* process exits on a failed tool) after at most 1 + 10 probes.
C20_PollTerminates ==
    /\ []PollBounds
    /\ (wpc \in {"loop", "sleep"}) ~> (wpc = "done")
    /\ (hop.fn = "Connect" /\ hpc \notin {"idle", "done"}) ~> (hpc = "done" \/ exited)

\* a Connect that used all its 1 + 10 probes has returned, and after it a
\* poll with maxRetries = 0 has returned false
C20_Witness ==
    /\ hop.fn = "Connect"
    /\ hpc = "done"
    /\ Cardinality(RunsOf("probe")) = ConnectFirstRetries + ConnectPollRetries
    /\ ~wargs.nilPath
    /\ wargs.maxRetries = 0
    /\ wpc = "done"
    /\ wret = "false"

\* ------------------------------------------------------------- properties: attachments
\* attachment a is the attachment id in the credential set of a present instance
Recorded(a) ==
    \E id \in DOMAIN instanceMap :
        Has(Cred(id), "attachmentId") /\ Cred(id)["attachmentId"] = a

\* C21: after any sequence of Create, Bind, UnBind and Remove run one after
\* the other, every attachment that exists at the control plane is the
\* attachment id in the credential set of an instance in the registry.
C21_NoOrphanAttachment ==
    (/\ ~overlap
     /\ ~fatal
     /\ \A p \in Procs : pc[p] = "idle") =>
        \A a \in attachments : Recorded(a)

====
